---- MODULE Spec2Model ----
(***************************************************************************)
(* The HLW8012 power-meter engine (class HLW8012): two pulse channels, CF  *)
(* (active power) and CF1 (current or voltage, chosen by the SEL pin),     *)
(* measured either by edge interrupts or by blocking pulseIn() calls.      *)
(*                                                                         *)
(* The interrupt handlers are atomic actions.  The foreground member       *)
(* functions run one access to shared state per step, so that a handler    *)
(* can run between any two of them.  Time is the value of micros(); the    *)
(* clock does not wrap within MaxTime.  Floats are exact rationals.        *)
(***************************************************************************)
EXTENDS Integers, Sequences, FiniteSets, TLC

(***************************************************************************)
(* Bounds of the model.                                                    *)
(***************************************************************************)
MaxTime == 20          \* micros() stays within this
MaxTick == 10          \* the longest step of micros()
MaxWindowPulses == 10  \* edges counted in one window
MaxTotalPulses == 6    \* edges counted since resetEnergy()
MaxPulseIn == 2        \* the longest pulse pulseIn() measures
MaxConfigCalls == 2    \* calibration and configuration calls
PulseTimeout == 3      \* begin()'s pulse_timeout
EnergyTime == 8        \* micros() stays within this in SpecEnergy
SelectTime == 9        \* micros() stays within this in SpecSelect
ModeTime == 10        \* micros() stays within this in SpecMode
MeterTime == 16        \* micros() stays below this in SpecMeter
MaxGap == 5            \* longest time between two shared edges in SpecLive
StaleTime == 9         \* micros() stays within this in SpecStale

(***************************************************************************)
(* Rationals n/d in lowest terms with d > 0, standing for float values.    *)
(***************************************************************************)
Abs(x) == IF x < 0 THEN -x ELSE x

RECURSIVE Gcd(_, _)
Gcd(a, b) == IF b = 0 THEN a ELSE Gcd(b, a % b)

Rat(n, d) ==
    LET s == IF d < 0 THEN -1 ELSE 1
        g == Gcd(Abs(n), Abs(d))
    IN  [n |-> (s * n) \div g, d |-> (s * d) \div g]

RatInt(k) == [n |-> k, d |-> 1]

Zero == RatInt(0)

\* a * b, cancelling across before multiplying
RatMul(a, b) ==
    LET g1 == Gcd(Abs(a.n), b.d)
        g2 == Gcd(Abs(b.n), a.d)
    IN  [n |-> (a.n \div g1) * (b.n \div g2), d |-> (a.d \div g2) * (b.d \div g1)]

\* a / b for b # 0
RatDiv(a, b) == RatMul(a, Rat(b.d, b.n))

RatAdd(a, b) == Rat(a.n * b.d + b.n * a.d, a.d * b.d)

RatPos(a) == a.n > 0

\* static_cast<int>(float): truncation toward zero
RatTrunc(a) == IF a.n >= 0 THEN a.n \div a.d ELSE -((-a.n) \div a.d)

(***************************************************************************)
(* Constants of HLW8012.h, which is not among the sources: the reference   *)
(* voltage, the oscillator frequency and the default resistors.  The       *)
(* values stand in for the datasheet's and keep the multipliers small.     *)
(***************************************************************************)
V_REF == 3
F_OSC == 32000000
R_CURRENT == 1
R_VOLTAGE == 4

\* hlw8012_mode_t
MODE_CURRENT == "MODE_CURRENT"
MODE_VOLTAGE == "MODE_VOLTAGE"
Modes == {MODE_CURRENT, MODE_VOLTAGE}

\* begin()'s pulse_timeout values
Timeouts == {PulseTimeout}

\* the reference values given to expectedCurrent, expectedVoltage, expectedActivePower
ExpectedValues == {RatInt(-1), Zero, RatInt(2)}

\* the resistor values given to setResistors
ResistorValues == {RatInt(-2), Zero, RatInt(2)}

(***************************************************************************)
(* State.  The HLW8012 object's fields keep their names.                   *)
(***************************************************************************)
VARIABLES
    _current_resistor, _voltage_resistor,
    _current_multiplier, _voltage_multiplier, _power_multiplier,
    _pulse_timeout, _current_mode, _use_interrupts,
    _voltage_pulse_width, _current_pulse_width, _power_pulse_width,
    _cf_pulse_count_total,
    _current, _voltage, _power,
    _mode,
    _last_cf_interrupt, _first_cf_interrupt, _cf_pulse_count,
    _last_cf1_interrupt, _first_cf1_interrupt, _cf1_pulse_count,
    sel_pin,      \* level last written to the SEL pin
    now,          \* micros()
    begun,        \* begin() has run
    edge_cf,      \* time of the last edge on CF (0: none yet)
    edge_cf1,     \* time of the last edge on CF1 (0: none yet)
    todo,         \* the foreground's remaining steps, innermost call first
    loc,          \* the foreground call's arguments, locals and entry snapshot
    ncfg,         \* configuration and calibration calls made so far
    cf_edges,     \* cf_interrupt() runs since the last resetEnergy()
    ev            \* what the last step did

resistors == <<_current_resistor, _voltage_resistor>>
multipliers == <<_current_multiplier, _voltage_multiplier, _power_multiplier>>
config == <<_pulse_timeout, _current_mode, _use_interrupts, begun>>
widths == <<_voltage_pulse_width, _current_pulse_width, _power_pulse_width>>
readings == <<_current, _voltage, _power>>
cf == <<_last_cf_interrupt, _first_cf_interrupt, _cf_pulse_count>>
cf1 == <<_last_cf1_interrupt, _first_cf1_interrupt, _cf1_pulse_count>>
edges == <<edge_cf, edge_cf1>>
energy == <<_cf_pulse_count_total, cf_edges>>
fg == <<todo, loc>>

vars == <<resistors, multipliers, config, widths, energy, readings,
          _mode, cf, cf1, sel_pin, now, edges, fg, ncfg, ev>>

\* getMode() of a stored level
ModeOf(level) == IF level = _current_mode THEN MODE_CURRENT ELSE MODE_VOLTAGE

\* the SEL level of a logical mode
LevelOf(mode) == IF mode = MODE_CURRENT THEN _current_mode ELSE 1 - _current_mode

\* a (long) difference compared with an unsigned long: the difference is
\* converted to unsigned, so a negative one is larger than any timeout
UGt(diff, limit) == diff < 0 \/ diff > limit

None == [t |-> "none"]

\* no foreground call in progress
LocIdle == [op |-> "idle"]

\* what a call finds on entry
Entry ==
    [mode |-> _mode,
     \* the staleness checks would fire
     stale_cf |-> now - _last_cf_interrupt > 2 * _pulse_timeout,
     stale_cf1 |-> now - _last_cf1_interrupt > _pulse_timeout,
     \* no edge for longer than _pulse_timeout
     quiet_cf |-> now - edge_cf > _pulse_timeout,
     quiet_cf1 |-> now - edge_cf1 > _pulse_timeout,
     current_pulse_width |-> _current_pulse_width,
     voltage_pulse_width |-> _voltage_pulse_width,
     power_pulse_width |-> _power_pulse_width,
     current |-> _current, voltage |-> _voltage, power |-> _power,
     current_multiplier |-> _current_multiplier,
     voltage_multiplier |-> _voltage_multiplier,
     power_multiplier |-> _power_multiplier]

\* a call's record on entry: its argument (a mode or a value), its locals, and irq,
\* the handlers that ran inside the call
LocCall(op, arg) ==
    [op |-> op, arg |-> arg, irq |-> {}, entry |-> Entry,
     mode |-> 0, t |-> 0, valid |-> FALSE, value |-> Zero]

\* _calculateDefaultMultipliers(): the three values for given resistors.  The
\* quotient 1000000.0 / F_OSC is taken first (exact arithmetic: the order of
\* the factors does not change the value).
DefaultCurrentMultiplier(rc) ==
    RatDiv(RatDiv(RatMul(RatMul(RatDiv(RatInt(1000000), RatInt(F_OSC)), RatInt(512)),
                         RatInt(V_REF)), rc), RatInt(24))

DefaultVoltageMultiplier(rv) ==
    RatDiv(RatMul(RatMul(RatMul(RatDiv(RatInt(1000000), RatInt(F_OSC)), RatInt(512)),
                         RatInt(V_REF)), rv), RatInt(2))

DefaultPowerMultiplier(rc, rv) ==
    RatDiv(RatDiv(RatMul(RatMul(RatMul(RatMul(RatDiv(RatInt(1000000), RatInt(F_OSC)),
                                              RatInt(128)), RatInt(V_REF)), RatInt(V_REF)),
                         rv), rc), RatInt(48))

_calculateDefaultMultipliers(rc, rv) ==
    /\ _current_multiplier' = DefaultCurrentMultiplier(rc)
    /\ _voltage_multiplier' = DefaultVoltageMultiplier(rv)
    /\ _power_multiplier' = DefaultPowerMultiplier(rc, rv)

(***************************************************************************)
(* The object as constructed (the member initialisers of HLW8012.h).       *)
(***************************************************************************)
Init ==
    /\ _current_resistor = RatInt(R_CURRENT)
    /\ _voltage_resistor = RatInt(R_VOLTAGE)
    /\ _current_multiplier = Zero
    /\ _voltage_multiplier = Zero
    /\ _power_multiplier = Zero
    /\ _pulse_timeout = 1
    /\ _current_mode = 1
    /\ _use_interrupts = TRUE
    /\ _voltage_pulse_width = 0
    /\ _current_pulse_width = 0
    /\ _power_pulse_width = 0
    /\ _cf_pulse_count_total = 0
    /\ _current = Zero
    /\ _voltage = Zero
    /\ _power = Zero
    /\ _mode = 0
    /\ _last_cf_interrupt = 0
    /\ _first_cf_interrupt = 0
    /\ _cf_pulse_count = 0
    /\ _last_cf1_interrupt = 0
    /\ _first_cf1_interrupt = 0
    /\ _cf1_pulse_count = 0
    /\ sel_pin = 0
    /\ now = 0
    /\ begun = FALSE
    /\ edge_cf = 0
    /\ edge_cf1 = 0
    /\ todo = <<>>
    /\ loc = LocIdle
    /\ ncfg = 0
    /\ cf_edges = 0
    /\ ev = None

\* micros() advances (nothing reads it once begin() has chosen polling)
Tick ==
    /\ begun => _use_interrupts
    /\ \E d \in 1..MaxTick :
        /\ now + d <= MaxTime
        /\ now' = now + d
    /\ ev' = None
    /\ UNCHANGED <<resistors, multipliers, config, widths, energy,
                   readings, _mode, cf, cf1, sel_pin, edges, fg, ncfg>>

\* begin(cf_pin, cf1_pin, sel_pin, currentWhen, use_interrupts, pulse_timeout)
begin ==
    /\ ~begun
    /\ \E currentWhen \in {0, 1}, use_interrupts \in BOOLEAN, pulse_timeout \in Timeouts :
        /\ _current_mode' = currentWhen
        /\ _use_interrupts' = use_interrupts
        /\ _pulse_timeout' = pulse_timeout
        /\ _mode' = currentWhen
        /\ sel_pin' = currentWhen
    /\ _calculateDefaultMultipliers(_current_resistor, _voltage_resistor)
    /\ begun' = TRUE
    /\ ev' = [t |-> "begin"]
    /\ UNCHANGED <<resistors, widths, energy, readings, cf, cf1, now,
                   edges, fg, ncfg>>

(***************************************************************************)
(* The edge interrupt handlers.  Each runs to completion; edges of one     *)
(* channel arrive at distinct values of micros().                          *)
(***************************************************************************)

\* the handler ran inside a foreground call: note it in the call's record
Interrupted(ch) ==
    loc' = IF todo # <<>> THEN [loc EXCEPT !.irq = @ \cup {ch}] ELSE loc

\* cf_interrupt(), the pulse width of a closed window
cf_pulse_width(t, last_cf_interrupt, first_cf_interrupt, pulse_count, time_since_first) ==
    IF last_cf_interrupt = first_cf_interrupt \/ pulse_count < 3
    THEN 0
    ELSE IF pulse_count < 10
         THEN t - last_cf_interrupt
         ELSE time_since_first \div pulse_count

\* cf_interrupt()
cf_interrupt ==
    /\ begun /\ _use_interrupts
    /\ now > edge_cf
    /\ _cf_pulse_count_total < MaxTotalPulses
    /\ LET last_cf_interrupt == _last_cf_interrupt
           time_since_first == now - _first_cf_interrupt
       IN  /\ _last_cf_interrupt' = now
           /\ _cf_pulse_count_total' = _cf_pulse_count_total + 1
           /\ cf_edges' = cf_edges + 1
           /\ IF UGt(time_since_first, 2 * _pulse_timeout)
              THEN /\ _first_cf_interrupt' = now
                   /\ _cf_pulse_count' = 0
                   /\ _power_pulse_width' =
                          cf_pulse_width(now, last_cf_interrupt, _first_cf_interrupt,
                                         _cf_pulse_count, time_since_first)
                   /\ ev' = [t |-> "cf_close", count |-> _cf_pulse_count,
                             since |-> time_since_first, last |-> last_cf_interrupt,
                             first |-> _first_cf_interrupt, prev |-> edge_cf]
              ELSE /\ _cf_pulse_count < MaxWindowPulses
                   /\ _cf_pulse_count' = _cf_pulse_count + 1
                   /\ ev' = [t |-> "cf_edge"]
                   /\ UNCHANGED <<_first_cf_interrupt, _power_pulse_width>>
    /\ edge_cf' = now
    /\ Interrupted("cf")
    /\ UNCHANGED <<resistors, multipliers, config, _voltage_pulse_width,
                   _current_pulse_width, readings, _mode, cf1, sel_pin, now, edge_cf1,
                   todo, ncfg>>

\* cf1_interrupt() with the test pulse_count < 2
cf1_pulse_width_two(t, last_cf1_interrupt, first_cf1_interrupt, pulse_count, time_since_first) ==
    IF last_cf1_interrupt = first_cf1_interrupt \/ pulse_count < 2
    THEN 0
    ELSE IF pulse_count < 10
         THEN t - last_cf1_interrupt
         ELSE time_since_first \div pulse_count

\* cf1_interrupt(), the pulse width of a closed window
cf1_pulse_width(t, last_cf1_interrupt, first_cf1_interrupt, pulse_count, time_since_first) ==
    IF last_cf1_interrupt = first_cf1_interrupt \/ pulse_count < 3
    THEN 0
    ELSE IF pulse_count < 10
         THEN t - last_cf1_interrupt
         ELSE time_since_first \div pulse_count

\* cf1_interrupt() closing a window without the flip
cf1_interrupt_keeping ==
    /\ begun /\ _use_interrupts
    /\ now > edge_cf1
    /\ LET last_cf1_interrupt == _last_cf1_interrupt
           time_since_first == now - _first_cf1_interrupt
       IN  /\ _last_cf1_interrupt' = now
           /\ IF UGt(time_since_first, _pulse_timeout)
              THEN LET mode == _mode
                       newMode == 1 - mode
                       pulse_width ==
                           cf1_pulse_width(now, last_cf1_interrupt, _first_cf1_interrupt,
                                           _cf1_pulse_count, time_since_first)
                   IN  /\ _first_cf1_interrupt' = now
                       /\ _cf1_pulse_count' = 0
                       /\ sel_pin' = mode
                       /\ _mode' = mode
                       /\ IF mode = _current_mode
                          THEN /\ _current_pulse_width' = pulse_width
                               /\ UNCHANGED _voltage_pulse_width
                          ELSE /\ _voltage_pulse_width' = pulse_width
                               /\ UNCHANGED _current_pulse_width
                       /\ ev' = [t |-> "cf1_close", count |-> _cf1_pulse_count,
                                 since |-> time_since_first, last |-> last_cf1_interrupt,
                                 first |-> _first_cf1_interrupt, prev |-> edge_cf1,
                                 mode |-> mode]
              ELSE /\ _cf1_pulse_count < MaxWindowPulses
                   /\ _cf1_pulse_count' = _cf1_pulse_count + 1
                   /\ ev' = [t |-> "cf1_edge"]
                   /\ UNCHANGED <<_first_cf1_interrupt, _voltage_pulse_width,
                                  _current_pulse_width, sel_pin, _mode>>
    /\ edge_cf1' = now
    /\ Interrupted("cf1")
    /\ UNCHANGED <<resistors, multipliers, config, _power_pulse_width,
                   energy, readings, cf, now, edge_cf, todo, ncfg>>

\* cf1_interrupt() storing the closed window's width for both signals
cf1_interrupt_both ==
    /\ begun /\ _use_interrupts
    /\ now > edge_cf1
    /\ LET last_cf1_interrupt == _last_cf1_interrupt
           time_since_first == now - _first_cf1_interrupt
       IN  /\ _last_cf1_interrupt' = now
           /\ IF UGt(time_since_first, _pulse_timeout)
              THEN LET mode == _mode
                       newMode == 1 - mode
                       pulse_width ==
                           cf1_pulse_width(now, last_cf1_interrupt, _first_cf1_interrupt,
                                           _cf1_pulse_count, time_since_first)
                   IN  /\ _first_cf1_interrupt' = now
                       /\ _cf1_pulse_count' = 0
                       /\ sel_pin' = newMode
                       /\ _mode' = newMode
                       /\ _current_pulse_width' = pulse_width
                       /\ _voltage_pulse_width' = pulse_width
                       /\ ev' = [t |-> "cf1_close", count |-> _cf1_pulse_count,
                                 since |-> time_since_first, last |-> last_cf1_interrupt,
                                 first |-> _first_cf1_interrupt, prev |-> edge_cf1,
                                 mode |-> mode]
              ELSE /\ _cf1_pulse_count < MaxWindowPulses
                   /\ _cf1_pulse_count' = _cf1_pulse_count + 1
                   /\ ev' = [t |-> "cf1_edge"]
                   /\ UNCHANGED <<_first_cf1_interrupt, _voltage_pulse_width,
                                  _current_pulse_width, sel_pin, _mode>>
    /\ edge_cf1' = now
    /\ Interrupted("cf1")
    /\ UNCHANGED <<resistors, multipliers, config, _power_pulse_width,
                   energy, readings, cf, now, edge_cf, todo, ncfg>>

\* cf1_interrupt()
cf1_interrupt ==
    /\ begun /\ _use_interrupts
    /\ now > edge_cf1
    /\ LET last_cf1_interrupt == _last_cf1_interrupt
           time_since_first == now - _first_cf1_interrupt
       IN  /\ _last_cf1_interrupt' = now
           /\ IF UGt(time_since_first, _pulse_timeout)
              THEN LET mode == _mode
                       newMode == 1 - mode
                       pulse_width ==
                           cf1_pulse_width(now, last_cf1_interrupt, _first_cf1_interrupt,
                                           _cf1_pulse_count, time_since_first)
                   IN  /\ _first_cf1_interrupt' = now
                       /\ _cf1_pulse_count' = 0
                       /\ sel_pin' = newMode
                       /\ _mode' = newMode
                       /\ IF mode = _current_mode
                          THEN /\ _current_pulse_width' = pulse_width
                               /\ UNCHANGED _voltage_pulse_width
                          ELSE /\ _voltage_pulse_width' = pulse_width
                               /\ UNCHANGED _current_pulse_width
                       /\ ev' = [t |-> "cf1_close", count |-> _cf1_pulse_count,
                                 since |-> time_since_first, last |-> last_cf1_interrupt,
                                 first |-> _first_cf1_interrupt, prev |-> edge_cf1,
                                 mode |-> mode]
              ELSE /\ _cf1_pulse_count < MaxWindowPulses
                   /\ _cf1_pulse_count' = _cf1_pulse_count + 1
                   /\ ev' = [t |-> "cf1_edge"]
                   /\ UNCHANGED <<_first_cf1_interrupt, _voltage_pulse_width,
                                  _current_pulse_width, sel_pin, _mode>>
    /\ edge_cf1' = now
    /\ Interrupted("cf1")
    /\ UNCHANGED <<resistors, multipliers, config, _power_pulse_width,
                   energy, readings, cf, now, edge_cf, todo, ncfg>>

(***************************************************************************)
(* The foreground.  A call puts its steps on todo; a step that calls       *)
(* another function puts that function's steps in front.                   *)
(***************************************************************************)
At(label) == begun /\ todo # <<>> /\ Head(todo) = label

Idle == begun /\ todo = <<>>

other == <<resistors, config, energy, now, edges, ncfg>>

\* the caller has its result
return ==
    /\ At("ret")
    /\ todo' = <<>>
    /\ ev' = [t |-> "ret", l |-> loc]
    /\ loc' = LocIdle
    /\ UNCHANGED <<other, multipliers, widths, readings, _mode, cf, cf1, sel_pin>>

setModeSteps == <<"sm_mode", "sm_arg", "sm_pin", "sm_time">>

\* setMode(mode), called
call_setMode ==
    /\ Idle
    /\ \E mode \in Modes : loc' = LocCall("setMode", mode)
    /\ todo' = setModeSteps \o <<"ret">>
    /\ ev' = None
    /\ UNCHANGED <<other, multipliers, widths, readings, _mode, cf, cf1, sel_pin>>

\* setMode: _mode = (mode == MODE_CURRENT) ? _current_mode : 1 - _current_mode
setMode_mode ==
    /\ At("sm_mode")
    /\ _mode' = LevelOf(loc.arg)
    /\ todo' = Tail(todo)
    /\ ev' = None
    /\ UNCHANGED <<other, multipliers, widths, readings, cf, cf1, sel_pin, loc>>

\* setMode: digitalWrite's argument, _mode, is read
setMode_arg ==
    /\ At("sm_arg")
    /\ loc' = [loc EXCEPT !.mode = _mode]
    /\ todo' = Tail(todo)
    /\ ev' = None
    /\ UNCHANGED <<other, multipliers, widths, readings, _mode, cf, cf1, sel_pin>>

\* setMode: digitalWrite(_sel_pin, ...)
setMode_pin ==
    /\ At("sm_pin")
    /\ sel_pin' = loc.mode
    /\ todo' = Tail(todo)
    /\ ev' = None
    /\ UNCHANGED <<other, multipliers, widths, readings, _mode, cf, cf1, loc>>

\* setMode() without the restart of the shared channel's window
setMode_time_kept ==
    /\ At("sm_time")
    /\ todo' = Tail(todo)
    /\ ev' = None
    /\ UNCHANGED <<other, multipliers, widths, readings, _mode, cf, cf1, sel_pin, loc>>

\* setMode: if (_use_interrupts) _last_cf1_interrupt = _first_cf1_interrupt = micros()
setMode_time ==
    /\ At("sm_time")
    /\ IF _use_interrupts
       THEN /\ _last_cf1_interrupt' = now
            /\ _first_cf1_interrupt' = now
            /\ UNCHANGED _cf1_pulse_count
       ELSE UNCHANGED cf1
    /\ todo' = Tail(todo)
    /\ ev' = None
    /\ UNCHANGED <<other, multipliers, widths, readings, _mode, cf, sel_pin, loc>>

\* toggleMode(): new_mode = getMode() == MODE_CURRENT ? MODE_VOLTAGE : MODE_CURRENT,
\* the argument of setMode and the result
toggleMode ==
    /\ Idle
    /\ LET new_mode == IF ModeOf(_mode) = MODE_CURRENT THEN MODE_VOLTAGE ELSE MODE_CURRENT
       IN  loc' = [LocCall("toggleMode", new_mode) EXCEPT !.value = new_mode]
    /\ todo' = setModeSteps \o <<"ret">>
    /\ ev' = None
    /\ UNCHANGED <<other, multipliers, widths, readings, _mode, cf, cf1, sel_pin>>

(***************************************************************************)
(* The staleness checks, called by the accessors when interrupts are used. *)
(***************************************************************************)
checkCFSteps == <<"k0_now", "k0_cmp">>

checkCF1Steps == <<"k1_now", "k1_cmp">>

\* _checkCFSignal: now = micros()
checkCF_now ==
    /\ At("k0_now")
    /\ loc' = [loc EXCEPT !.t = now]
    /\ todo' = Tail(todo)
    /\ ev' = None
    /\ UNCHANGED <<other, multipliers, widths, readings, _mode, cf, cf1, sel_pin>>

\* _checkCFSignal with the test time_since_last > 4 * _pulse_timeout
checkCF_stale_late(time_since_last) == UGt(time_since_last, 4 * _pulse_timeout)

\* _checkCFSignal: time_since_last > 2 * _pulse_timeout
checkCF_stale(time_since_last) == UGt(time_since_last, 2 * _pulse_timeout)

\* _checkCFSignal: the comparison with _last_cf_interrupt
checkCF_cmp ==
    /\ At("k0_cmp")
    /\ todo' = IF checkCF_stale(loc.t - _last_cf_interrupt)
               THEN <<"k0_time", "k0_count", "k0_zero">> \o Tail(todo)
               ELSE Tail(todo)
    /\ ev' = None
    /\ UNCHANGED <<other, multipliers, widths, readings, _mode, cf, cf1, sel_pin, loc>>

\* _checkCFSignal: _last_cf_interrupt = _first_cf_interrupt = now
checkCF_time ==
    /\ At("k0_time")
    /\ IF _use_interrupts
       THEN /\ _last_cf_interrupt' = loc.t
            /\ _first_cf_interrupt' = loc.t
            /\ UNCHANGED _cf_pulse_count
       ELSE UNCHANGED cf
    /\ todo' = Tail(todo)
    /\ ev' = None
    /\ UNCHANGED <<other, multipliers, widths, readings, _mode, cf1, sel_pin, loc>>

\* _checkCFSignal: _cf_pulse_count = 0
checkCF_count ==
    /\ At("k0_count")
    /\ _cf_pulse_count' = IF _use_interrupts THEN 0 ELSE _cf_pulse_count
    /\ todo' = Tail(todo)
    /\ ev' = None
    /\ UNCHANGED <<other, multipliers, widths, readings, _mode, _last_cf_interrupt,
                   _first_cf_interrupt, cf1, sel_pin, loc>>

\* _checkCFSignal: _power_pulse_width = 0
checkCF_zero ==
    /\ At("k0_zero")
    /\ _power_pulse_width' = 0
    /\ todo' = Tail(todo)
    /\ ev' = None
    /\ UNCHANGED <<other, multipliers, _voltage_pulse_width, _current_pulse_width,
                   readings, _mode, cf, cf1, sel_pin, loc>>

\* _checkCF1Signal: now = micros()
checkCF1_now ==
    /\ At("k1_now")
    /\ loc' = [loc EXCEPT !.t = now]
    /\ todo' = Tail(todo)
    /\ ev' = None
    /\ UNCHANGED <<other, multipliers, widths, readings, _mode, cf, cf1, sel_pin>>

\* _checkCF1Signal with the power channel's test, 2 * _pulse_timeout
checkCF1_stale_late(time_since_last) == UGt(time_since_last, 2 * _pulse_timeout)

\* _checkCF1Signal: time_since_last > _pulse_timeout
checkCF1_stale(time_since_last) == UGt(time_since_last, _pulse_timeout)

\* _checkCF1Signal: the comparison with _last_cf1_interrupt
checkCF1_cmp ==
    /\ At("k1_cmp")
    /\ todo' = IF checkCF1_stale(loc.t - _last_cf1_interrupt)
               THEN <<"k1_time", "k1_count", "k1_read", "k1_zero", "k1_flip", "k1_pin",
                      "k1_mode">> \o Tail(todo)
               ELSE Tail(todo)
    /\ ev' = None
    /\ UNCHANGED <<other, multipliers, widths, readings, _mode, cf, cf1, sel_pin, loc>>

\* _checkCF1Signal: _last_cf1_interrupt = _first_cf1_interrupt = now
checkCF1_time ==
    /\ At("k1_time")
    /\ IF _use_interrupts
       THEN /\ _last_cf1_interrupt' = loc.t
            /\ _first_cf1_interrupt' = loc.t
            /\ UNCHANGED _cf1_pulse_count
       ELSE UNCHANGED cf1
    /\ todo' = Tail(todo)
    /\ ev' = None
    /\ UNCHANGED <<other, multipliers, widths, readings, _mode, cf, sel_pin, loc>>

\* _checkCF1Signal: _cf1_pulse_count = 0
checkCF1_count ==
    /\ At("k1_count")
    /\ _cf1_pulse_count' = IF _use_interrupts THEN 0 ELSE _cf1_pulse_count
    /\ todo' = Tail(todo)
    /\ ev' = None
    /\ UNCHANGED <<other, multipliers, widths, readings, _mode, cf, _last_cf1_interrupt,
                   _first_cf1_interrupt, sel_pin, loc>>

\* _checkCF1Signal: _mode is read for the test _mode == _current_mode
checkCF1_read ==
    /\ At("k1_read")
    /\ loc' = [loc EXCEPT !.mode = _mode]
    /\ todo' = Tail(todo)
    /\ ev' = None
    /\ UNCHANGED <<other, multipliers, widths, readings, _mode, cf, cf1, sel_pin>>

\* _checkCF1Signal: the pulse width of the mode read is set to 0
checkCF1_zero ==
    /\ At("k1_zero")
    /\ IF loc.mode = _current_mode
       THEN /\ _current_pulse_width' = 0
            /\ UNCHANGED _voltage_pulse_width
       ELSE /\ _voltage_pulse_width' = 0
            /\ UNCHANGED _current_pulse_width
    /\ todo' = Tail(todo)
    /\ ev' = None
    /\ UNCHANGED <<other, multipliers, _power_pulse_width, readings, _mode, cf, cf1,
                   sel_pin, loc>>

\* _checkCF1Signal: mode = 1 - _mode
checkCF1_flip ==
    /\ At("k1_flip")
    /\ loc' = [loc EXCEPT !.mode = 1 - _mode]
    /\ todo' = Tail(todo)
    /\ ev' = None
    /\ UNCHANGED <<other, multipliers, widths, readings, _mode, cf, cf1, sel_pin>>

\* _checkCF1Signal: DIRECT_pinWrite(_sel_pin, mode)
checkCF1_pin ==
    /\ At("k1_pin")
    /\ sel_pin' = loc.mode
    /\ todo' = Tail(todo)
    /\ ev' = None
    /\ UNCHANGED <<other, multipliers, widths, readings, _mode, cf, cf1, loc>>

\* _checkCF1Signal: _mode = mode
checkCF1_mode ==
    /\ At("k1_mode")
    /\ _mode' = loc.mode
    /\ todo' = Tail(todo)
    /\ ev' = None
    /\ UNCHANGED <<other, multipliers, widths, readings, cf, cf1, sel_pin, loc>>

(***************************************************************************)
(* The accessors.                                                          *)
(***************************************************************************)

\* multiplier / static_cast<float>(pulse_width) / 2.0f
Reading(multiplier, pulse_width) ==
    RatDiv(RatDiv(multiplier, RatInt(pulse_width)), RatInt(2))

getCurrentSteps == <<"gc_sel", "gc_calc">>

getVoltageSteps == <<"gv_sel", "gv_calc">>

getActivePowerSteps == <<"gp_sel", "gp_calc">>

\* getCurrent(valid), called
call_getCurrent ==
    /\ Idle
    /\ loc' = LocCall("getCurrent", Zero)
    /\ todo' = getCurrentSteps \o <<"ret">>
    /\ ev' = None
    /\ UNCHANGED <<other, multipliers, widths, readings, _mode, cf, cf1, sel_pin>>

\* getCurrent() without the test _power == 0
getCurrent_select_measuring ==
    /\ At("gc_sel")
    /\ IF _use_interrupts
       THEN /\ todo' = checkCF1Steps \o Tail(todo)
            /\ UNCHANGED _current_pulse_width
       ELSE IF _mode = _current_mode
            THEN /\ \E pulseIn \in 0..MaxPulseIn : _current_pulse_width' = pulseIn
                 /\ todo' = Tail(todo)
            ELSE /\ todo' = Tail(todo)
                 /\ UNCHANGED _current_pulse_width
    /\ ev' = None
    /\ UNCHANGED <<other, multipliers, _voltage_pulse_width, _power_pulse_width, readings,
                   _mode, cf, cf1, sel_pin, loc>>

\* getCurrent: where the pulse width comes from
getCurrent_select ==
    /\ At("gc_sel")
    /\ IF _power = Zero
       THEN /\ _current_pulse_width' = 0
            /\ todo' = Tail(todo)
       ELSE IF _use_interrupts
            THEN /\ todo' = checkCF1Steps \o Tail(todo)
                 /\ UNCHANGED _current_pulse_width
            ELSE IF _mode = _current_mode
                 THEN /\ \E pulseIn \in 0..MaxPulseIn : _current_pulse_width' = pulseIn
                      /\ todo' = Tail(todo)
                 ELSE /\ todo' = Tail(todo)
                      /\ UNCHANGED _current_pulse_width
    /\ ev' = None
    /\ UNCHANGED <<other, multipliers, _voltage_pulse_width, _power_pulse_width, readings,
                   _mode, cf, cf1, sel_pin, loc>>

\* getCurrent: _current and valid from _current_pulse_width
getCurrent_calc ==
    /\ At("gc_calc")
    /\ LET current_pulse_width == _current_pulse_width
           value == IF current_pulse_width > 0
                    THEN Reading(_current_multiplier, current_pulse_width)
                    ELSE Zero
       IN  /\ _current' = value
           /\ loc' = [loc EXCEPT !.valid = current_pulse_width > 0, !.value = value]
    /\ todo' = Tail(todo)
    /\ ev' = None
    /\ UNCHANGED <<other, multipliers, widths, _voltage, _power, _mode, cf, cf1, sel_pin>>

\* getVoltage(valid), called
call_getVoltage ==
    /\ Idle
    /\ loc' = LocCall("getVoltage", Zero)
    /\ todo' = getVoltageSteps \o <<"ret">>
    /\ ev' = None
    /\ UNCHANGED <<other, multipliers, widths, readings, _mode, cf, cf1, sel_pin>>

\* getVoltage() sampling whatever the mode
getVoltage_select_always ==
    /\ At("gv_sel")
    /\ IF _use_interrupts
       THEN /\ todo' = checkCF1Steps \o Tail(todo)
            /\ UNCHANGED _voltage_pulse_width
       ELSE /\ \E pulseIn \in 0..MaxPulseIn : _voltage_pulse_width' = pulseIn
            /\ todo' = Tail(todo)
    /\ ev' = None
    /\ UNCHANGED <<other, multipliers, _current_pulse_width, _power_pulse_width, readings,
                   _mode, cf, cf1, sel_pin, loc>>

\* getVoltage: where the pulse width comes from
getVoltage_select ==
    /\ At("gv_sel")
    /\ IF _use_interrupts
       THEN /\ todo' = checkCF1Steps \o Tail(todo)
            /\ UNCHANGED _voltage_pulse_width
       ELSE IF _mode # _current_mode
            THEN /\ \E pulseIn \in 0..MaxPulseIn : _voltage_pulse_width' = pulseIn
                 /\ todo' = Tail(todo)
            ELSE /\ todo' = Tail(todo)
                 /\ UNCHANGED _voltage_pulse_width
    /\ ev' = None
    /\ UNCHANGED <<other, multipliers, _current_pulse_width, _power_pulse_width, readings,
                   _mode, cf, cf1, sel_pin, loc>>

\* getVoltage: _voltage and valid from _voltage_pulse_width
getVoltage_calc ==
    /\ At("gv_calc")
    /\ LET voltage_pulse_width == _voltage_pulse_width
           value == IF voltage_pulse_width > 0
                    THEN Reading(_voltage_multiplier, voltage_pulse_width)
                    ELSE Zero
       IN  /\ _voltage' = value
           /\ loc' = [loc EXCEPT !.valid = voltage_pulse_width > 0, !.value = value]
    /\ todo' = Tail(todo)
    /\ ev' = None
    /\ UNCHANGED <<other, multipliers, widths, _current, _power, _mode, cf, cf1, sel_pin>>

\* getActivePower(valid), called
call_getActivePower ==
    /\ Idle
    /\ loc' = LocCall("getActivePower", Zero)
    /\ todo' = getActivePowerSteps \o <<"ret">>
    /\ ev' = None
    /\ UNCHANGED <<other, multipliers, widths, readings, _mode, cf, cf1, sel_pin>>

\* getActivePower: where the pulse width comes from
getActivePower_select ==
    /\ At("gp_sel")
    /\ IF _use_interrupts
       THEN /\ todo' = checkCFSteps \o Tail(todo)
            /\ UNCHANGED _power_pulse_width
       ELSE /\ \E pulseIn \in 0..MaxPulseIn : _power_pulse_width' = pulseIn
            /\ todo' = Tail(todo)
    /\ ev' = None
    /\ UNCHANGED <<other, multipliers, _current_pulse_width, _voltage_pulse_width, readings,
                   _mode, cf, cf1, sel_pin, loc>>

\* getActivePower: _power and valid from _power_pulse_width
getActivePower_calc ==
    /\ At("gp_calc")
    /\ LET power_pulse_width == _power_pulse_width
           value == IF power_pulse_width > 0
                    THEN Reading(_power_multiplier, power_pulse_width)
                    ELSE Zero
       IN  /\ _power' = value
           /\ loc' = [loc EXCEPT !.valid = power_pulse_width > 0, !.value = value]
    /\ todo' = Tail(todo)
    /\ ev' = None
    /\ UNCHANGED <<other, multipliers, widths, _current, _voltage, _mode, cf, cf1, sel_pin>>

\* getEnergy() without the final division by 2
Energy_whole(pulse_count) ==
    IF ~_use_interrupts
    THEN Zero
    ELSE RatDiv(RatMul(RatInt(pulse_count), _power_multiplier), RatInt(1000000))

\* getEnergy(): the value for a pulse count
Energy(pulse_count) ==
    IF ~_use_interrupts
    THEN Zero
    ELSE RatDiv(RatDiv(RatMul(RatInt(pulse_count), _power_multiplier), RatInt(1000000)),
                RatInt(2))

\* getEnergy()
getEnergy ==
    /\ Idle
    /\ ev' = [t |-> "ret",
              l |-> [LocCall("getEnergy", Zero) EXCEPT !.value = Energy(_cf_pulse_count_total)]]
    /\ UNCHANGED <<other, multipliers, widths, readings, _mode, cf, cf1, sel_pin, fg>>

\* resetEnergy()
resetEnergy ==
    /\ Idle
    /\ _cf_pulse_count_total' = 0
    /\ cf_edges' = 0
    /\ ev' = [t |-> "ret", l |-> LocCall("resetEnergy", Zero)]
    /\ UNCHANGED <<resistors, config, now, edges, ncfg, multipliers, widths, readings,
                   _mode, cf, cf1, sel_pin, fg>>

(***************************************************************************)
(* Calibration and configuration.                                          *)
(***************************************************************************)

\* expectedCurrent(value), called
call_expectedCurrent ==
    /\ Idle
    /\ ncfg < MaxConfigCalls
    /\ ncfg' = ncfg + 1
    /\ \E value \in ExpectedValues \cup {_current} : loc' = LocCall("expectedCurrent", value)
    /\ todo' = <<"ec_test", "ec_apply", "ret">>
    /\ ev' = None
    /\ UNCHANGED <<resistors, config, energy, now, edges, multipliers,
                   widths, readings, _mode, cf, cf1, sel_pin>>

\* expectedCurrent: if (static_cast<int>(_current) == 0) getCurrent(valid)
expectedCurrent_test ==
    /\ At("ec_test")
    /\ todo' = IF RatTrunc(_current) = 0 THEN getCurrentSteps \o Tail(todo) ELSE Tail(todo)
    /\ ev' = None
    /\ UNCHANGED <<other, multipliers, widths, readings, _mode, cf, cf1, sel_pin, loc>>

\* expectedCurrent: the current multiplier after the call
expectedCurrent_multiplier(valid, value) ==
    IF valid /\ RatTrunc(_current) > 0
    THEN RatMul(_current_multiplier, RatDiv(value, _current))
    ELSE _current_multiplier

\* expectedCurrent: if (valid && static_cast<int>(_current) > 0) _current_multiplier *= ...
expectedCurrent_apply ==
    /\ At("ec_apply")
    /\ _current_multiplier' = expectedCurrent_multiplier(loc.valid, loc.arg)
    /\ todo' = Tail(todo)
    /\ ev' = None
    /\ UNCHANGED <<other, _voltage_multiplier, _power_multiplier, widths, readings, _mode,
                   cf, cf1, sel_pin, loc>>

\* expectedVoltage(value), called
call_expectedVoltage ==
    /\ Idle
    /\ ncfg < MaxConfigCalls
    /\ ncfg' = ncfg + 1
    /\ \E value \in ExpectedValues \cup {_voltage} : loc' = LocCall("expectedVoltage", value)
    /\ todo' = <<"ev_test", "ev_apply", "ret">>
    /\ ev' = None
    /\ UNCHANGED <<resistors, config, energy, now, edges, multipliers,
                   widths, readings, _mode, cf, cf1, sel_pin>>

\* expectedVoltage: if (static_cast<int>(_voltage) == 0) getVoltage(valid)
expectedVoltage_test ==
    /\ At("ev_test")
    /\ todo' = IF RatTrunc(_voltage) = 0 THEN getVoltageSteps \o Tail(todo) ELSE Tail(todo)
    /\ ev' = None
    /\ UNCHANGED <<other, multipliers, widths, readings, _mode, cf, cf1, sel_pin, loc>>

\* expectedVoltage: the voltage multiplier after the call
expectedVoltage_multiplier(valid, value) ==
    IF valid /\ RatTrunc(_voltage) > 0
    THEN RatMul(_voltage_multiplier, RatDiv(value, _voltage))
    ELSE _voltage_multiplier

\* expectedVoltage: if (valid && static_cast<int>(_voltage) > 0) _voltage_multiplier *= ...
expectedVoltage_apply ==
    /\ At("ev_apply")
    /\ _voltage_multiplier' = expectedVoltage_multiplier(loc.valid, loc.arg)
    /\ todo' = Tail(todo)
    /\ ev' = None
    /\ UNCHANGED <<other, _current_multiplier, _power_multiplier, widths, readings, _mode,
                   cf, cf1, sel_pin, loc>>

\* expectedActivePower(value), called
call_expectedActivePower ==
    /\ Idle
    /\ ncfg < MaxConfigCalls
    /\ ncfg' = ncfg + 1
    /\ \E value \in ExpectedValues \cup {_power} : loc' = LocCall("expectedActivePower", value)
    /\ todo' = <<"ep_test", "ep_apply", "ret">>
    /\ ev' = None
    /\ UNCHANGED <<resistors, config, energy, now, edges, multipliers,
                   widths, readings, _mode, cf, cf1, sel_pin>>

\* expectedActivePower: if (static_cast<int>(_power) == 0) getActivePower(valid)
expectedActivePower_test ==
    /\ At("ep_test")
    /\ todo' = IF RatTrunc(_power) = 0 THEN getActivePowerSteps \o Tail(todo) ELSE Tail(todo)
    /\ ev' = None
    /\ UNCHANGED <<other, multipliers, widths, readings, _mode, cf, cf1, sel_pin, loc>>

\* expectedActivePower: the power multiplier after the call
expectedActivePower_multiplier(valid, value) ==
    IF valid /\ RatTrunc(_power) > 0
    THEN RatMul(_power_multiplier, RatDiv(value, _power))
    ELSE _power_multiplier

\* expectedActivePower: if (valid && static_cast<int>(_power) > 0) _power_multiplier *= ...
expectedActivePower_apply ==
    /\ At("ep_apply")
    /\ _power_multiplier' = expectedActivePower_multiplier(loc.valid, loc.arg)
    /\ todo' = Tail(todo)
    /\ ev' = None
    /\ UNCHANGED <<other, _current_multiplier, _voltage_multiplier, widths, readings, _mode,
                   cf, cf1, sel_pin, loc>>

\* resetMultipliers()
resetMultipliers ==
    /\ Idle
    /\ ncfg < MaxConfigCalls
    /\ ncfg' = ncfg + 1
    /\ _calculateDefaultMultipliers(_current_resistor, _voltage_resistor)
    /\ ev' = [t |-> "ret", l |-> LocCall("resetMultipliers", Zero)]
    /\ UNCHANGED <<resistors, config, energy, now, edges, widths, readings,
                   _mode, cf, cf1, sel_pin, fg>>

\* setResistors() with the test voltage_downstream != 0
setResistors_nonzero ==
    /\ Idle
    /\ ncfg < MaxConfigCalls
    /\ ncfg' = ncfg + 1
    /\ \E current \in ResistorValues, voltage_upstream \in ResistorValues,
          voltage_downstream \in ResistorValues :
        /\ IF voltage_downstream # Zero
           THEN LET rc == IF RatPos(current) THEN current ELSE _current_resistor
                    rv == RatDiv(RatAdd(voltage_upstream, voltage_downstream),
                                 voltage_downstream)
                IN  /\ _current_resistor' = rc
                    /\ _voltage_resistor' = rv
                    /\ _calculateDefaultMultipliers(rc, rv)
           ELSE UNCHANGED <<resistors, multipliers>>
        /\ ev' = [t |-> "ret",
                  l |-> LocCall("setResistors",
                                <<current, voltage_upstream, voltage_downstream>>)]
    /\ UNCHANGED <<config, energy, now, edges, widths, readings,
                   _mode, cf, cf1, sel_pin, fg>>

\* setResistors(current, voltage_upstream, voltage_downstream)
setResistors ==
    /\ Idle
    /\ ncfg < MaxConfigCalls
    /\ ncfg' = ncfg + 1
    /\ \E current \in ResistorValues, voltage_upstream \in ResistorValues,
          voltage_downstream \in ResistorValues :
        /\ IF RatPos(voltage_downstream)
           THEN LET rc == IF RatPos(current) THEN current ELSE _current_resistor
                    rv == RatDiv(RatAdd(voltage_upstream, voltage_downstream),
                                 voltage_downstream)
                IN  /\ _current_resistor' = rc
                    /\ _voltage_resistor' = rv
                    /\ _calculateDefaultMultipliers(rc, rv)
           ELSE UNCHANGED <<resistors, multipliers>>
        /\ ev' = [t |-> "ret",
                  l |-> LocCall("setResistors",
                                <<current, voltage_upstream, voltage_downstream>>)]
    /\ UNCHANGED <<config, energy, now, edges, widths, readings,
                   _mode, cf, cf1, sel_pin, fg>>

(***************************************************************************)
(* The derived quantities.  getApparentPower(), getReactivePower() and     *)
(* getPowerFactor() call the accessors; their locals are kept in the call  *)
(* record.                                                                 *)
(***************************************************************************)

\* a < b
RatLt(a, b) == a.n * b.d < b.n * a.d

\* sqrtf(x) for x > 0: a positive value, kept as the root of x
Sqrtf(x) == [sqrt |-> x]

\* the call record of a derived quantity, with the locals of lines 140-142,
\* 148-150 and 160-162
DerivedCall(op) ==
    LocCall(op, Zero) @@ [current |-> Zero, valid_cur |-> FALSE,
                          voltage |-> Zero, valid_volt |-> FALSE,
                          active |-> Zero, valid_active |-> FALSE,
                          apparent |-> Zero, valid_apparent |-> FALSE]

getApparentPowerSteps ==
    getCurrentSteps \o <<"ap_cur">> \o getVoltageSteps \o <<"ap_volt", "ap_res">>

\* getApparentPower(valid), called
call_getApparentPower ==
    /\ Idle
    /\ loc' = DerivedCall("getApparentPower")
    /\ todo' = getApparentPowerSteps \o <<"ret">>
    /\ ev' = None
    /\ UNCHANGED <<other, multipliers, widths, readings, _mode, cf, cf1, sel_pin>>

\* getApparentPower: const float current = getCurrent(valid_cur)
getApparentPower_current ==
    /\ At("ap_cur")
    /\ loc' = [loc EXCEPT !.current = loc.value, !.valid_cur = loc.valid]
    /\ todo' = Tail(todo)
    /\ ev' = None
    /\ UNCHANGED <<other, multipliers, widths, readings, _mode, cf, cf1, sel_pin>>

\* getApparentPower: const float voltage = getVoltage(valid_volt)
getApparentPower_voltage ==
    /\ At("ap_volt")
    /\ loc' = [loc EXCEPT !.voltage = loc.value, !.valid_volt = loc.valid]
    /\ todo' = Tail(todo)
    /\ ev' = None
    /\ UNCHANGED <<other, multipliers, widths, readings, _mode, cf, cf1, sel_pin>>

\* getApparentPower: valid = valid_cur && valid_volt; return voltage * current
getApparentPower_result ==
    /\ At("ap_res")
    /\ LET apparent == RatMul(loc.voltage, loc.current)
           valid == loc.valid_cur /\ loc.valid_volt
       IN  loc' = [loc EXCEPT !.apparent = apparent, !.valid_apparent = valid,
                              !.value = apparent, !.valid = valid]
    /\ todo' = Tail(todo)
    /\ ev' = None
    /\ UNCHANGED <<other, multipliers, widths, readings, _mode, cf, cf1, sel_pin>>

\* getReactivePower, getPowerFactor: const float active = getActivePower(valid_active)
getActive_result ==
    /\ At("act_res")
    /\ loc' = [loc EXCEPT !.active = loc.value, !.valid_active = loc.valid]
    /\ todo' = Tail(todo)
    /\ ev' = None
    /\ UNCHANGED <<other, multipliers, widths, readings, _mode, cf, cf1, sel_pin>>

\* getReactivePower() with the root taken whatever the order of the two powers
ReactivePower_always(active, apparent) ==
    LET d == RatAdd(RatMul(apparent, apparent), RatMul(RatInt(-1), RatMul(active, active)))
    IN  IF d = Zero THEN Zero ELSE Sqrtf(d)

\* getReactivePower: the value returned
ReactivePower(active, apparent) ==
    IF RatLt(active, apparent)
    THEN Sqrtf(RatAdd(RatMul(apparent, apparent), RatMul(RatInt(-1), RatMul(active, active))))
    ELSE Zero

\* getReactivePower(valid), called
call_getReactivePower ==
    /\ Idle
    /\ loc' = DerivedCall("getReactivePower")
    /\ todo' = getActivePowerSteps \o <<"act_res">> \o getApparentPowerSteps
                   \o <<"rp_res", "ret">>
    /\ ev' = None
    /\ UNCHANGED <<other, multipliers, widths, readings, _mode, cf, cf1, sel_pin>>

\* getReactivePower: valid = valid_active && valid_apparent and the return
getReactivePower_result ==
    /\ At("rp_res")
    /\ loc' = [loc EXCEPT !.valid = loc.valid_active /\ loc.valid_apparent,
                          !.value = ReactivePower(loc.active, loc.apparent)]
    /\ todo' = Tail(todo)
    /\ ev' = None
    /\ UNCHANGED <<other, multipliers, widths, readings, _mode, cf, cf1, sel_pin>>

\* getPowerFactor() without the test active > apparent
PowerFactor_unclipped(active, apparent) ==
    IF apparent = Zero THEN Zero ELSE RatDiv(active, apparent)

\* getPowerFactor: the value returned
PowerFactor(active, apparent) ==
    IF RatLt(apparent, active)
    THEN RatInt(1)
    ELSE IF apparent = Zero
         THEN Zero
         ELSE RatDiv(active, apparent)

\* getPowerFactor(valid), called
call_getPowerFactor ==
    /\ Idle
    /\ loc' = DerivedCall("getPowerFactor")
    /\ todo' = getActivePowerSteps \o <<"act_res">> \o getApparentPowerSteps
                   \o <<"pf_res", "ret">>
    /\ ev' = None
    /\ UNCHANGED <<other, multipliers, widths, readings, _mode, cf, cf1, sel_pin>>

\* getPowerFactor: valid = valid_active && valid_apparent and the return
getPowerFactor_result ==
    /\ At("pf_res")
    /\ loc' = [loc EXCEPT !.valid = loc.valid_active /\ loc.valid_apparent,
                          !.value = PowerFactor(loc.active, loc.apparent)]
    /\ todo' = Tail(todo)
    /\ ev' = None
    /\ UNCHANGED <<other, multipliers, widths, readings, _mode, cf, cf1, sel_pin>>

GetApparentPower ==
    \/ call_getApparentPower \/ getApparentPower_current \/ getApparentPower_voltage
    \/ getApparentPower_result

GetReactivePower == call_getReactivePower \/ getActive_result \/ getReactivePower_result

GetPowerFactor == call_getPowerFactor \/ getActive_result \/ getPowerFactor_result

(***************************************************************************)
(* The program: the handlers, the clock and the foreground's steps.        *)
(***************************************************************************)
Handlers == cf_interrupt \/ cf1_interrupt

ModeCalls ==
    \/ call_setMode \/ setMode_mode \/ setMode_arg \/ setMode_pin \/ setMode_time
    \/ toggleMode

CheckCFSignal ==
    checkCF_now \/ checkCF_cmp \/ checkCF_time \/ checkCF_count \/ checkCF_zero

CheckCF1Signal ==
    \/ checkCF1_now \/ checkCF1_cmp \/ checkCF1_time \/ checkCF1_count \/ checkCF1_read
    \/ checkCF1_zero \/ checkCF1_flip \/ checkCF1_pin \/ checkCF1_mode

GetCurrent == call_getCurrent \/ getCurrent_select \/ getCurrent_calc

GetVoltage == call_getVoltage \/ getVoltage_select \/ getVoltage_calc

GetActivePower == call_getActivePower \/ getActivePower_select \/ getActivePower_calc

ExpectedCurrent == call_expectedCurrent \/ expectedCurrent_test \/ expectedCurrent_apply

ExpectedVoltage == call_expectedVoltage \/ expectedVoltage_test \/ expectedVoltage_apply

ExpectedActivePower ==
    call_expectedActivePower \/ expectedActivePower_test \/ expectedActivePower_apply

Next ==
    \/ begin \/ Tick \/ Handlers \/ ModeCalls \/ CheckCFSignal \/ CheckCF1Signal
    \/ GetCurrent \/ GetVoltage \/ GetActivePower \/ getEnergy \/ resetEnergy
    \/ GetApparentPower \/ GetReactivePower \/ GetPowerFactor
    \/ ExpectedCurrent \/ ExpectedVoltage \/ ExpectedActivePower
    \/ resetMultipliers \/ setResistors \/ return

\* the whole program
Spec == Init /\ [][Next]_vars

(***************************************************************************)
(* The meter at work, handlers running between the foreground's calls:     *)
(* first the power signal is measured, a burst of pulses one tick apart;   *)
(* then, once an active power is known, the shared signal.  The two        *)
(* channels share no state but _power, which only the foreground writes.   *)
(***************************************************************************)
meter_begin == begin /\ _use_interrupts'

meter_tick == Tick /\ Idle /\ now' < MeterTime

power_edge ==
    /\ cf_interrupt
    /\ Idle /\ _power = Zero
    /\ now > PulseTimeout /\ now <= 2 * PulseTimeout + 1

power_read == call_getActivePower /\ _power = Zero

shared_edge == cf1_interrupt /\ Idle /\ _power # Zero

shared_setMode == call_setMode /\ _power # Zero

shared_toggleMode == toggleMode /\ _power # Zero

shared_read == call_getVoltage /\ _power # Zero

NextMeter ==
    \/ meter_begin \/ meter_tick \/ return
    \/ power_edge \/ power_read \/ getActivePower_select \/ getActivePower_calc
    \/ CheckCFSignal
    \/ shared_edge \/ shared_setMode \/ shared_toggleMode \/ shared_read
    \/ setMode_mode \/ setMode_arg \/ setMode_pin \/ setMode_time
    \/ getVoltage_select \/ getVoltage_calc \/ GetCurrent \/ CheckCF1Signal

SpecMeter == Init /\ [][NextMeter]_vars

(***************************************************************************)
(* Mode switching against the shared signal: the handler may run between   *)
(* any two steps of setMode() and toggleMode().                            *)
(***************************************************************************)
mode_begin == begin /\ _use_interrupts'

mode_tick == Tick /\ Idle /\ now' <= ModeTime

NextMode == mode_begin \/ mode_tick \/ cf1_interrupt \/ ModeCalls \/ return

SpecMode == Init /\ [][NextMode]_vars

(***************************************************************************)
(* A long run of the shared signal, the handler and the mode calls taking  *)
(* turns.                                                                  *)
(***************************************************************************)
signal_begin == begin /\ _use_interrupts' /\ _current_mode' = 1

signal_tick == Tick /\ Idle

signal_edge == cf1_interrupt /\ Idle

NextSignal ==
    \/ signal_begin \/ signal_tick \/ signal_edge \/ return
    \/ toggleMode \/ setMode_mode \/ setMode_arg \/ setMode_pin \/ setMode_time

SpecSignal == Init /\ [][NextSignal]_vars

(***************************************************************************)
(* Calibration of the polling meter: reads, mode changes, the expected     *)
(* values and the resistors.                                               *)
(***************************************************************************)
calib_begin == begin /\ ~_use_interrupts'

NextCalib ==
    \/ calib_begin \/ return \/ toggleMode
    \/ setMode_mode \/ setMode_arg \/ setMode_pin \/ setMode_time
    \/ GetCurrent \/ GetVoltage \/ GetActivePower
    \/ ExpectedCurrent \/ ExpectedVoltage \/ ExpectedActivePower
    \/ resetMultipliers \/ setResistors

SpecCalib == Init /\ [][NextCalib]_vars

(***************************************************************************)
(* The power channel and the energy count, in either discipline.           *)
(***************************************************************************)
energy_tick == Tick /\ Idle /\ now' <= EnergyTime

energy_edge == cf_interrupt /\ now <= EnergyTime

NextEnergy ==
    \/ begin \/ energy_tick \/ energy_edge \/ return
    \/ GetActivePower \/ CheckCFSignal \/ getEnergy \/ resetEnergy
    \/ ExpectedActivePower \/ resetMultipliers

SpecEnergy == Init /\ [][NextEnergy]_vars

(***************************************************************************)
(* The select line in either discipline: mode calls and reads of the       *)
(* voltage and, no active power being known, of the current; the shared    *)
(* channel's handler runs between the calls.                               *)
(***************************************************************************)
select_tick == Tick /\ Idle /\ now' <= SelectTime

select_edge == cf1_interrupt /\ Idle

NextSelect ==
    \/ begin \/ select_tick \/ select_edge \/ return
    \/ ModeCalls \/ GetVoltage \/ GetCurrent \/ CheckCF1Signal

SpecSelect == Init /\ [][NextSelect]_vars

(***************************************************************************)
(* The derived quantities of the polling meter, the voltage and the power  *)
(* calibrated or not.                                                      *)
(***************************************************************************)
derived_begin == begin /\ ~_use_interrupts'

NextDerived ==
    \/ derived_begin \/ return \/ toggleMode
    \/ setMode_mode \/ setMode_arg \/ setMode_pin \/ setMode_time
    \/ GetCurrent \/ GetVoltage \/ GetActivePower
    \/ GetApparentPower \/ GetReactivePower \/ GetPowerFactor
    \/ ExpectedVoltage \/ ExpectedActivePower

SpecDerived == Init /\ [][NextDerived]_vars

(***************************************************************************)
(* The shared signal left to itself for ever: no foreground call, micros() *)
(* advancing and an edge arriving MaxGap after the last one at the latest. *)
(* The handler reads micros() and the stored times only through their      *)
(* differences, so that the times are kept relative to the oldest of them  *)
(* and the run can go on for ever.                                         *)
(***************************************************************************)
live_begin == begin /\ _use_interrupts'

OldestTime ==
    CHOOSE t \in {_first_cf1_interrupt, _last_cf1_interrupt, edge_cf1} :
        \A u \in {_first_cf1_interrupt, _last_cf1_interrupt, edge_cf1} : t <= u

live_tick ==
    /\ Idle /\ _use_interrupts
    /\ \E d \in 1..MaxTick :
        /\ now + d - edge_cf1 <= MaxGap
        /\ now' = now + d - OldestTime
    /\ _first_cf1_interrupt' = _first_cf1_interrupt - OldestTime
    /\ _last_cf1_interrupt' = _last_cf1_interrupt - OldestTime
    /\ edge_cf1' = edge_cf1 - OldestTime
    /\ ev' = None
    /\ UNCHANGED <<resistors, multipliers, config, widths, energy, readings, _mode,
                   cf, _cf1_pulse_count, sel_pin, edge_cf, fg, ncfg>>

live_edge == cf1_interrupt /\ Idle

NextLive == live_begin \/ live_tick \/ live_edge

SpecLive ==
    Init /\ [][NextLive]_vars /\ WF_vars(live_tick) /\ WF_vars(live_edge)

(***************************************************************************)
(* Reads of the voltage against the shared signal: the handler may run     *)
(* between any two steps of getVoltage() and of its staleness check.       *)
(***************************************************************************)
stale_begin == begin /\ _use_interrupts'

stale_tick == Tick /\ Idle /\ now' <= StaleTime

NextStale ==
    \/ stale_begin \/ stale_tick \/ cf1_interrupt \/ return
    \/ GetVoltage \/ CheckCF1Signal

SpecStale == Init /\ [][NextStale]_vars

(***************************************************************************)
(* The claims.  ev tells what the last step did: a handler closing a       *)
(* window records the window it closed, a return records the call.         *)
(***************************************************************************)

\* the pulse width the shared channel's handler stored when it closed a window
ClosedWidth ==
    IF ev.mode = _current_mode THEN _current_pulse_width ELSE _voltage_pulse_width

\* C1: a handler that closes a window of ten pulses or more stores, for the
\* signal measured in that window, the time since the window's start divided by
\* the pulse count (integer division)
C1_LongWindowAverage ==
    /\ (ev.t = "cf_close" /\ ev.count >= 10)
           => _power_pulse_width = ev.since \div ev.count
    /\ (ev.t = "cf1_close" /\ ev.count >= 10)
           => ClosedWidth = ev.since \div ev.count

\* C2: a handler that closes a window of three to nine pulses stores the interval
\* between the closing edge and the edge before it on that channel, never 0,
\* whatever edges and mode calls came before
C2_ShortWindowLastInterval ==
    /\ (ev.t = "cf_close" /\ ev.count >= 3 /\ ev.count < 10)
           => _power_pulse_width = now - ev.prev /\ _power_pulse_width # 0
    /\ (ev.t = "cf1_close" /\ ev.count >= 3 /\ ev.count < 10)
           => ClosedWidth = now - ev.prev /\ ClosedWidth # 0

\* C4: toggleMode() returns the opposite of the mode in effect at the call, and
\* at its return getMode() is the returned mode and the select pin is at that
\* mode's level, handlers interleaving or not
C4_ToggleModeReturnsMode ==
    (ev.t = "ret" /\ ev.l.op = "toggleMode")
        => /\ ev.l.value # ModeOf(ev.l.entry.mode)
           /\ ModeOf(_mode) = ev.l.value
           /\ sel_pin = LevelOf(ev.l.value)

\* a read of the interrupt-driven meter that no handler interrupted has returned
ReadDone(op) ==
    ev.t = "ret" /\ ev.l.op = op /\ _use_interrupts /\ ev.l.irq = {}

\* C3: a handler that closes a window of fewer than three pulses stores 0 for the
\* signal measured in that window, and a read that finds the pulse width 0
\* returns valid = false
C3_FewPulsesInvalid ==
    /\ (ev.t = "cf_close" /\ ev.count < 3) => _power_pulse_width = 0
    /\ (ev.t = "cf1_close" /\ ev.count < 3) => ClosedWidth = 0
    /\ (ReadDone("getActivePower") /\ ev.l.entry.power_pulse_width = 0)
           => ~ev.l.valid /\ ev.l.value = Zero
    /\ (ReadDone("getCurrent") /\ ev.l.entry.current_pulse_width = 0)
           => ~ev.l.valid /\ ev.l.value = Zero
    /\ (ReadDone("getVoltage") /\ ev.l.entry.voltage_pulse_width = 0)
           => ~ev.l.valid /\ ev.l.value = Zero

\* C3 happens: a window of two pulses, not restarted by the foreground, is closed
C3_TwoPulseWindowClosed ==
    ev.t = "cf1_close" /\ ev.count = 2 /\ ev.last # ev.first

\* getCurrent() has returned, called in CURRENT mode
CurrentRead == ReadDone("getCurrent") /\ ModeOf(ev.l.entry.mode) = MODE_CURRENT

\* getCurrent() has found the channel stale: 0.0, invalid, VOLTAGE selected
StaleCurrentResult ==
    /\ ~ev.l.valid /\ ev.l.value = Zero
    /\ ModeOf(_mode) = MODE_VOLTAGE
    /\ sel_pin = LevelOf(MODE_VOLTAGE)

\* C5 as stated: in CURRENT mode with no shared-channel edge for longer than the
\* timeout, getCurrent() returns 0.0, invalid, and selects VOLTAGE, whatever the
\* last computed active power
C5_AsStated == (CurrentRead /\ ev.l.entry.quiet_cf1) => StaleCurrentResult

\* C5: in CURRENT mode with a nonzero last active power and the shared channel's
\* last activity (an edge, a setMode() or a staleness reset) older than the
\* timeout, an uninterrupted getCurrent() returns 0.0, invalid, and selects VOLTAGE
C5_StaleCurrentFlips ==
    (CurrentRead /\ ev.l.entry.stale_cf1 /\ ev.l.entry.power # Zero)
        => StaleCurrentResult

\* C5 happens: such a read found a pulse width that was valid before
C5_StaleCurrentRead ==
    /\ CurrentRead /\ ev.l.entry.stale_cf1 /\ ev.l.entry.power # Zero
    /\ ev.l.entry.current_pulse_width > 0

\* the power channel's window was restarted by the call's staleness check
WindowRestartedCF ==
    /\ _first_cf_interrupt = ev.l.t /\ _last_cf_interrupt = ev.l.t
    /\ _cf_pulse_count = 0

\* the shared channel's window was restarted by the call's staleness check
WindowRestartedCF1 ==
    /\ _first_cf1_interrupt = ev.l.t /\ _last_cf1_interrupt = ev.l.t
    /\ _cf1_pulse_count = 0

\* C9 as stated: a channel without an edge for longer than the timeout makes the
\* next read of each of its quantities invalid and restarts the channel's window
C9_AsStated ==
    /\ (ReadDone("getActivePower") /\ ev.l.entry.quiet_cf)
           => ~ev.l.valid /\ WindowRestartedCF
    /\ (ReadDone("getCurrent") /\ ev.l.entry.quiet_cf1)
           => ~ev.l.valid /\ WindowRestartedCF1
    /\ (ReadDone("getVoltage") /\ ev.l.entry.quiet_cf1)
           => ~ev.l.valid /\ WindowRestartedCF1

\* the shared channel's staleness check has fired in the call: the window is
\* restarted, the selected mode's pulse width is 0, the other one is kept, and
\* the other mode is selected
SharedCheckFired ==
    /\ WindowRestartedCF1
    /\ _mode = 1 - ev.l.entry.mode /\ sel_pin = _mode
    /\ IF ModeOf(ev.l.entry.mode) = MODE_CURRENT
       THEN /\ _current_pulse_width = 0
            /\ _voltage_pulse_width = ev.l.entry.voltage_pulse_width
       ELSE /\ _voltage_pulse_width = 0
            /\ _current_pulse_width = ev.l.entry.current_pulse_width

\* C9: an uninterrupted getActivePower() that finds the power channel's last
\* activity older than twice the timeout is invalid and restarts that window;
\* an uninterrupted getVoltage(), or getCurrent() with a nonzero last active
\* power, that finds the shared channel's last activity older than the timeout
\* restarts that window, zeroes the selected mode's pulse width only and selects
\* the other mode, so the read is invalid if it reads the selected quantity and
\* otherwise as valid as the other pulse width was
C9_StaleReadRestarts ==
    /\ (ReadDone("getActivePower") /\ ev.l.entry.stale_cf)
           => ~ev.l.valid /\ _power_pulse_width = 0 /\ WindowRestartedCF
    /\ (ReadDone("getVoltage") /\ ev.l.entry.stale_cf1)
           => /\ SharedCheckFired
              /\ ev.l.valid = (ModeOf(ev.l.entry.mode) = MODE_CURRENT
                               /\ ev.l.entry.voltage_pulse_width > 0)
    /\ (ReadDone("getCurrent") /\ ev.l.entry.stale_cf1 /\ ev.l.entry.power # Zero)
           => /\ SharedCheckFired
              /\ ev.l.valid = (ModeOf(ev.l.entry.mode) = MODE_VOLTAGE
                               /\ ev.l.entry.current_pulse_width > 0)
    /\ (ReadDone("getCurrent") /\ ev.l.entry.power = Zero)
           => ~ev.l.valid /\ _current_pulse_width = 0 /\ _mode = ev.l.entry.mode

\* C9 happens: getVoltage() in VOLTAGE mode finds a stale channel and a pulse
\* width that was valid before
C9_StaleVoltageRead ==
    /\ ReadDone("getVoltage") /\ ev.l.entry.stale_cf1
    /\ ModeOf(ev.l.entry.mode) = MODE_VOLTAGE
    /\ ev.l.entry.voltage_pulse_width > 0

\* a call has returned
ReturnOf(op) == ev.t = "ret" /\ ev.l.op = op

\* the multiplier a calibration against the reading leaves
Scaled(multiplier, ref, reading) == RatMul(multiplier, RatDiv(ref, reading))

\* C6: expectedCurrent(ref), expectedVoltage(ref) and expectedActivePower(ref)
\* multiply the multiplier by ref / reading whenever the call has a nonzero
\* reading, cached or freshly measured
C6_AsStated ==
    /\ (ReturnOf("expectedCurrent") /\ _current # Zero)
           => _current_multiplier
                  = Scaled(ev.l.entry.current_multiplier, ev.l.arg, _current)
    /\ (ReturnOf("expectedVoltage") /\ _voltage # Zero)
           => _voltage_multiplier
                  = Scaled(ev.l.entry.voltage_multiplier, ev.l.arg, _voltage)
    /\ (ReturnOf("expectedActivePower") /\ _power # Zero)
           => _power_multiplier
                  = Scaled(ev.l.entry.power_multiplier, ev.l.arg, _power)

\* C7: once begin() has run, whatever the resistors and the expected values
\* given, the three multipliers are strictly positive
C7_AsStated ==
    begun => /\ RatPos(_current_multiplier)
             /\ RatPos(_voltage_multiplier)
             /\ RatPos(_power_multiplier)

\* C8: expectedCurrent(v) called when the current reading is v, a nonzero
\* reading, leaves the three multipliers as they were
C8_AsStated ==
    (ReturnOf("expectedCurrent") /\ ev.l.arg = ev.l.entry.current
                                 /\ ev.l.entry.current # Zero)
        => /\ _current_multiplier = ev.l.entry.current_multiplier
           /\ _voltage_multiplier = ev.l.entry.voltage_multiplier
           /\ _power_multiplier = ev.l.entry.power_multiplier

\* N * M / 1,000,000 / 2
EnergyOf(N, M) == RatDiv(RatDiv(RatMul(RatInt(N), M), RatInt(1000000)), RatInt(2))

\* C10: getEnergy() returns N * M / 1,000,000 / 2 for the N power-channel edges
\* handled since the last resetEnergy() and the power multiplier M, 0 right
\* after resetEnergy() and 0 in the polling discipline; only resetEnergy()
\* decreases the pulse count
C10_EnergyCountsEdges ==
    /\ [](/\ _cf_pulse_count_total = cf_edges
          /\ ReturnOf("getEnergy")
                 => ev.l.value = IF _use_interrupts
                                 THEN EnergyOf(cf_edges, _power_multiplier)
                                 ELSE Zero
          /\ ReturnOf("resetEnergy") => _cf_pulse_count_total = 0)
    /\ [][\/ _cf_pulse_count_total' >= _cf_pulse_count_total
          \/ ev'.t = "ret" /\ ev'.l.op = "resetEnergy"]_vars

\* C10 happens: energy is read after a closed window, a later reset and two
\* more edges, under a calibrated multiplier
C10_EnergyRead ==
    /\ ReturnOf("getEnergy") /\ _use_interrupts
    /\ cf_edges = 2 /\ _power_pulse_width > 0
    /\ _power_multiplier # DefaultPowerMultiplier(_current_resistor, _voltage_resistor)

\* C11: setResistors() with a downstream value that is not positive leaves the
\* two resistor values and the three multipliers, calibrated or not, as they were
C11_BadDividerIgnored ==
    [][(ev'.t = "ret" /\ ev'.l.op = "setResistors" /\ ~RatPos(ev'.l.arg[3]))
           => (resistors' = resistors /\ multipliers' = multipliers)]_vars

\* C11 happens: such a call returns with the power multiplier calibrated before
C11_BadDividerAfterCalibration ==
    /\ ReturnOf("setResistors") /\ ~RatPos(ev.l.arg[3])
    /\ _power_multiplier # DefaultPowerMultiplier(_current_resistor, _voltage_resistor)

\* setMode(m), called directly or by toggleMode(), has returned uninterrupted
ModeSet == ev.t = "ret" /\ ev.l.op \in {"setMode", "toggleMode"} /\ ev.l.irq = {}

\* C12: when setMode(m) returns, no handler having run inside it, getMode() is m
\* and the select pin is at m's level; with interrupts the shared channel's
\* timestamps are micros(), and a read whose staleness check finds the timestamp
\* no older than the timeout changes neither the mode nor the pulse widths;
\* right after begin() the pin is at currentWhen and getMode() is CURRENT
C12_SetModeSelects ==
    /\ ModeSet => /\ ModeOf(_mode) = ev.l.arg
                  /\ sel_pin = LevelOf(ev.l.arg)
                  /\ _use_interrupts => /\ _last_cf1_interrupt = now
                                        /\ _first_cf1_interrupt = now
                                        /\ ~checkCF1_stale(now - _last_cf1_interrupt)
    /\ (ReadDone("getVoltage") /\ ~ev.l.entry.stale_cf1)
           => /\ _mode = ev.l.entry.mode /\ sel_pin = _mode
              /\ _voltage_pulse_width = ev.l.entry.voltage_pulse_width
              /\ _current_pulse_width = ev.l.entry.current_pulse_width
    /\ ev.t = "begin" => sel_pin = _current_mode /\ ModeOf(_mode) = MODE_CURRENT

\* C12 happens: a read finds the shared channel without an edge for longer than
\* the timeout, and not stale because setMode() restarted the window that had
\* counted pulses
C12_ReadAfterSetMode ==
    /\ ReadDone("getVoltage") /\ ev.l.entry.quiet_cf1 /\ ~ev.l.entry.stale_cf1
    /\ _cf1_pulse_count > 0

\* the three measurements a derived quantity combines are valid: in the polling
\* discipline, the pulse widths its accessors left are positive
MeasuredValid ==
    _power_pulse_width > 0 /\ _current_pulse_width > 0 /\ _voltage_pulse_width > 0

\* the apparent power of the readings the accessors left
MeasuredApparent == RatMul(_voltage, _current)

\* C13: getPowerFactor() is valid iff the active power, the current and the
\* voltage it measured are valid, and then returns 1 if active >= apparent,
\* else 0 if apparent = 0, else active / apparent
C13_PowerFactor ==
    ReturnOf("getPowerFactor")
        => /\ ev.l.valid = MeasuredValid
           /\ ev.l.valid
                  => ev.l.value
                         = IF ~RatLt(_power, MeasuredApparent)
                           THEN RatInt(1)
                           ELSE IF MeasuredApparent = Zero
                                THEN Zero
                                ELSE RatDiv(_power, MeasuredApparent)

\* C13 happens: a valid power factor of 1 for an active power above the apparent
C13_ClippedPowerFactor ==
    /\ ReturnOf("getPowerFactor") /\ ev.l.valid
    /\ RatLt(MeasuredApparent, _power) /\ MeasuredApparent # Zero

\* C14: getReactivePower() returns 0 whenever apparent <= active, and is valid
\* iff the active power, the current and the voltage it measured are valid
C14_ReactivePower ==
    ReturnOf("getReactivePower")
        => /\ ev.l.valid = MeasuredValid
           /\ ~RatLt(_power, MeasuredApparent) => ev.l.value = Zero
           /\ RatLt(_power, MeasuredApparent) => ev.l.value # Zero

\* C14 happens: a valid reactive power of 0 for an active power above the apparent
C14_NoReactivePower ==
    /\ ReturnOf("getReactivePower") /\ ev.l.valid
    /\ RatLt(MeasuredApparent, _power)

\* C15: with the last active power 0, getCurrent() in either discipline sets the
\* current pulse width to 0 without a staleness check or a pulseIn(), leaves
\* the mode, the select pin and the shared channel's window alone, and returns
\* 0.0, invalid
C15_ZeroPowerNoCurrent ==
    /\ []((ReturnOf("getCurrent") /\ ev.l.entry.power = Zero /\ ev.l.irq = {})
              => /\ ~ev.l.valid /\ ev.l.value = Zero
                 /\ _current_pulse_width = 0 /\ _current = Zero
                 /\ _mode = ev.l.entry.mode)
    /\ [][(todo # <<>> /\ Head(todo) = "gc_sel" /\ _power = Zero /\ todo' # todo)
              => /\ todo' = Tail(todo)
                 /\ _current_pulse_width' = 0
                 /\ UNCHANGED <<_mode, sel_pin, cf1>>]_vars

\* C15 happens: with interrupts, getCurrent() finds the last active power 0, the
\* shared channel stale and a current pulse width that was valid
C15_ZeroPowerStaleCurrent ==
    /\ ReturnOf("getCurrent") /\ _use_interrupts
    /\ ev.l.entry.power = Zero /\ ev.l.entry.stale_cf1
    /\ ev.l.entry.current_pulse_width > 0

\* C16: with interrupts, a handler counts its edge before it tests whether the
\* window is over: the pulse count it uses when it closes a window is the count
\* stored before the edge plus one, the closing edge included
C16_ClosingEdgeCounted ==
    [][/\ (edge_cf1' # edge_cf1 /\ ev'.t = "cf1_close")
              => ev'.count = _cf1_pulse_count + 1
       /\ (edge_cf' # edge_cf /\ ev'.t = "cf_close")
              => ev'.count = _cf_pulse_count + 1]_vars

\* C17: cf1_interrupt() closes the window exactly when the time since its start
\* exceeds the timeout; it then flips the mode, puts the select pin at the new
\* level, restarts the window at now with count 0 and writes only the pulse
\* width of the mode selected before the flip, leaving the other widths, the
\* energy counter and the multipliers alone.  cf_interrupt() closes its window
\* only after twice the timeout and leaves the mode, the select pin, the shared
\* channel's window and the shared signals' widths alone
C17_ClosureFrame ==
    [][/\ edge_cf1' # edge_cf1
              => IF now - _first_cf1_interrupt > _pulse_timeout
                 THEN /\ ev'.t = "cf1_close"
                      /\ _mode' = 1 - _mode /\ sel_pin' = _mode'
                      /\ _first_cf1_interrupt' = now /\ _cf1_pulse_count' = 0
                      /\ IF _mode = _current_mode
                         THEN UNCHANGED _voltage_pulse_width
                         ELSE UNCHANGED _current_pulse_width
                      /\ UNCHANGED <<_power_pulse_width, _cf_pulse_count_total,
                                     multipliers, cf>>
                 ELSE /\ ev'.t = "cf1_edge"
                      /\ UNCHANGED <<_mode, sel_pin, widths, _first_cf1_interrupt,
                                     _cf_pulse_count_total, multipliers, cf>>
       /\ edge_cf' # edge_cf
              => /\ ev'.t = "cf_close" <=> now - _first_cf_interrupt > 2 * _pulse_timeout
                 /\ UNCHANGED <<_mode, sel_pin, cf1, _current_pulse_width,
                                _voltage_pulse_width>>]_vars

\* C17 happens: a window of the voltage closes with a width, the current's width
\* and the power's width measured before
C17_VoltageWindowClosed ==
    /\ ev.t = "cf1_close" /\ ev.mode # _current_mode
    /\ _voltage_pulse_width > 0 /\ _current_pulse_width > 0 /\ _power_pulse_width > 0
    /\ ModeOf(_mode) = MODE_CURRENT /\ sel_pin = _mode

\* C18: with interrupts and no mode call, as long as time advances and edges keep
\* arriving on the shared channel, from every state after begin() the mode is
\* eventually MODE_CURRENT and eventually MODE_VOLTAGE, no foreground call made
C18_ModeAlternates ==
    /\ [](begun => <>(ModeOf(_mode) = MODE_CURRENT))
    /\ [](begun => <>(ModeOf(_mode) = MODE_VOLTAGE))

\* C18 happens: the handler closes a window of the voltage and selects the current
\* again, a window of the current measured before, no foreground call made
C18_BackToCurrent ==
    /\ ev.t = "cf1_close" /\ ev.mode # _current_mode
    /\ ModeOf(_mode) = MODE_CURRENT /\ _current_pulse_width > 0
    /\ loc = LocIdle /\ ncfg = 0

\* the value an accessor computes from a stored pulse width
Reported(multiplier, pulse_width) ==
    IF pulse_width > 0 THEN Reading(multiplier, pulse_width) ELSE Zero

\* when polling, the mode and the select pin change in setMode() and toggleMode()
\* only
PollingModeFrame ==
    (~_use_interrupts /\ (_mode' # _mode \/ sel_pin' # sel_pin))
        => loc'.op \in {"setMode", "toggleMode"}

\* when polling, getVoltage() run in another mode than MODE_VOLTAGE leaves the
\* voltage's pulse width as stored and reports the value of the stored one
PollingVoltageKept ==
    /\ (~_use_interrupts /\ todo # <<>> /\ Head(todo) = "gv_sel" /\ todo' # todo
            /\ _mode = _current_mode)
           => UNCHANGED _voltage_pulse_width
    /\ (~_use_interrupts' /\ ev'.t = "ret" /\ ev'.l.op = "getVoltage"
            /\ ev'.l.entry.mode = _current_mode')
           => /\ _voltage_pulse_width' = ev'.l.entry.voltage_pulse_width
              /\ ev'.l.value = Reported(_voltage_multiplier', _voltage_pulse_width')
              /\ ev'.l.valid = (_voltage_pulse_width' > 0)

\* when polling, getCurrent() run in another mode than MODE_CURRENT, the last
\* active power not 0, leaves the current's pulse width as stored and reports
\* the value of the stored one
PollingCurrentKept ==
    /\ (~_use_interrupts /\ todo # <<>> /\ Head(todo) = "gc_sel" /\ todo' # todo
            /\ _mode # _current_mode /\ _power # Zero)
           => UNCHANGED _current_pulse_width
    /\ (~_use_interrupts' /\ ev'.t = "ret" /\ ev'.l.op = "getCurrent"
            /\ ev'.l.entry.mode # _current_mode' /\ ev'.l.entry.power # Zero)
           => /\ _current_pulse_width' = ev'.l.entry.current_pulse_width
              /\ ev'.l.value = Reported(_current_multiplier', _current_pulse_width')
              /\ ev'.l.valid = (_current_pulse_width' > 0)

\* C19 as stated: when polling, the mode and the select pin change in setMode()
\* and toggleMode() only; getVoltage() samples only in MODE_VOLTAGE; getCurrent()
\* samples only in MODE_CURRENT with a nonzero active power, and in every other
\* case, the last active power being 0 included, it leaves the current's pulse
\* width as stored and reports the stored one
C19_AsStated ==
    [][/\ PollingModeFrame
       /\ PollingVoltageKept
       /\ PollingCurrentKept
       /\ (~_use_interrupts /\ todo # <<>> /\ Head(todo) = "gc_sel" /\ todo' # todo
               /\ _power = Zero)
              => UNCHANGED _current_pulse_width]_vars

\* C19, amended: when polling, the mode and the select pin change in setMode()
\* and toggleMode() only; getVoltage() samples only in MODE_VOLTAGE and
\* getCurrent() only in MODE_CURRENT with a nonzero active power; in another
\* mode the accessor leaves its pulse width as stored and reports the stored
\* one, except that getCurrent() with the last active power 0 sets the
\* current's pulse width to 0
C19_PollingSamplesSelected ==
    [][/\ PollingModeFrame
       /\ PollingVoltageKept
       /\ PollingCurrentKept
       /\ (~_use_interrupts /\ todo # <<>> /\ Head(todo) = "gc_sel" /\ todo' # todo
               /\ _power = Zero)
              => _current_pulse_width' = 0]_vars

\* C19 happens: polling getCurrent() in MODE_VOLTAGE, the active power not 0,
\* reports the current measured before
C19_CurrentReportedInVoltageMode ==
    /\ ReturnOf("getCurrent") /\ ~_use_interrupts
    /\ ModeOf(ev.l.entry.mode) = MODE_VOLTAGE /\ ev.l.entry.power # Zero
    /\ ev.l.entry.current_pulse_width > 0 /\ ev.l.valid

\* C20: whatever the interleaving of the shared channel's handler with setMode(),
\* toggleMode() and the staleness checks, whenever no call is in progress the
\* level last written to the select pin is the stored level _mode, which is 0
\* or 1
C20_SelectPinFollowsMode ==
    Idle => (sel_pin = _mode /\ _mode \in {0, 1})

\* C21: with interrupts, when setMode() or toggleMode() has returned, or a read
\* whose staleness check fired, the shared channel's window is restarted with a
\* pulse count of 0, and a handler that closes a window in which no edge came
\* since its restart uses the count 0: no pulse of the mode selected before
\* counts for the new mode
C21_RestartedWindowEmpty ==
    /\ (ModeSet /\ _use_interrupts) => _cf1_pulse_count = 0
    /\ (ReadDone("getVoltage") /\ ev.l.entry.stale_cf1) => _cf1_pulse_count = 0
    /\ (ev.t = "cf1_close" /\ ev.last = ev.first) => ev.count = 0

\* C22: with interrupts, a getVoltage() that finds the shared channel stale
\* leaves the mode one flip away from the mode it found and leaves the pulse
\* width of the mode that was not selected as it found it, whether or not the
\* shared channel's handler ran inside the call
C22_StaleCheckFlipsOnce ==
    (ReturnOf("getVoltage") /\ _use_interrupts /\ ev.l.entry.stale_cf1)
        => /\ _mode = 1 - ev.l.entry.mode
           /\ IF ModeOf(ev.l.entry.mode) = MODE_CURRENT
              THEN _voltage_pulse_width = ev.l.entry.voltage_pulse_width
              ELSE _current_pulse_width = ev.l.entry.current_pulse_width

====
